---- MODULE Spec2Model ----
(***************************************************************************)
(* A model of procast: the quote filter and the Quote class               *)
(* (extractor.py), the card renderer (card_generator.py), the             *)
(* configuration object (config.py), the transcriber (transcriber.py) and *)
(* the four CLI commands (cli.py).  Each part has its own specification;  *)
(* the variables of the parts a specification does not exercise stay at   *)
(* their idle values.                                                      *)
(***************************************************************************)
EXTENDS Integers, Sequences, FiniteSets, TLC

VARIABLES
    \* ---- QuoteExtractor.filter_quotes called on its own
    fQuotes,      \* the caller's list object (a sequence of quotes)
    fBefore,      \* the caller's list as it was when the call was made
    fArgs,        \* [min_score, category, max_count] of the call
    fResult,      \* the returned list
    fpc,          \* "call" | "returned"
    \* ---- one run of a CLI command (cli.py)
    cmd,          \* "transcribe" | "extract" | "generate" | "pipeline"
    opts,         \* the command line options
    pc,           \* the command's position
    outcome,      \* "running" | "exit0" | "exit1" | "uncaught"
    console,      \* the messages printed so far
    started,      \* the stage calls made so far, in order
    returned,     \* the stage calls that returned without an exception
    exc,          \* where the run's first exception was raised ("" if none)
    tModel,       \* AudioTranscriber.model: "None" | "loaded"
    inputExists,  \* whether the audio (transcribe, pipeline) or text (extract) file exists
    transcript,   \* [txt, json]: the transcript files, "absent" | "old" | "new"
    quotesFile,   \* the quotes JSON file: [state, data]
    cliQuotes,    \* the command's local variable `quotes`
    cards,        \* the card files written, in writing order
    \* ---- CardGenerator.generate_batch called on its own
    bQuotes,      \* the list passed in
    bStyle,       \* the style passed in
    bpc,          \* "call" | "returned" | "raised"
    bIndex,       \* the loop iterations completed
    bPaths,       \* output_paths
    bFiles,       \* the images written, in writing order
    bDir,         \* whether output_dir exists
    \* ---- the Config object (config.py)
    cfgpc,        \* "new" | "ready" | "failed" (the constructor raised)
    config,       \* Config.config, a tree of nested dictionaries
    cfgPrev,      \* Config.config before the last operation
    cfgLast,      \* the last operation: its arguments, result and exception
    cfgSets,      \* the Config.set calls made
    \* ---- one Quote built and serialised (extractor.py)
    qpc,          \* "args" | "object" | "dict" | "back"
    qArgs,        \* the constructor arguments
    qObj,         \* the Quote built from qArgs
    qDict,        \* a dictionary: qObj.to_dict(), or one read from a file
    qBack,        \* Quote.from_dict(qDict)
    \* ---- AudioTranscriber.transcribe called on its own (transcriber.py)
    tpc,          \* the call's position
    tIn,          \* the call: entry point, audio file, output_path, whisper
    trModel,      \* AudioTranscriber.model: "None" | "loaded"
    trFiles,      \* the file system: path -> "absent" | "old" | "new"
    trAtCall,     \* model and files when the call was made
    trLog,        \* the whisper calls and file writes of the call, in order
    trRaised,     \* the exception the call raised ("" if none)
    trCalls,      \* the calls made on this transcriber
    \* ---- QuoteExtractor.extract_from_file called on its own (extractor.py)
    epc,          \* the call's position
    eIn,          \* the call: input file, output_path, what the LLM does
    eFile,        \* the quotes output file: [state, data]
    eAtCall,      \* the output file when the call was made
    eLog,         \* the reads, LLM calls and writes of the call, in order
    eRaised,      \* the exception the call raised ("" if none)
    eQuotes,      \* the local variable `quotes`
    \* ---- CardGenerator._wrap_text called on its own (card_generator.py)
    wpc,          \* "call" | "returned"
    wText,        \* the text, a sequence of characters
    wFont,        \* the font: the advance width of each character
    wMaxWidth,    \* max_width
    wLines,       \* the returned lines
    \* ---- one card drawn by CardGenerator.generate (card_generator.py)
    dpc,          \* "call" | "drawn"
    dGen,         \* the CardGenerator: width, height, padding, font
    dCall,        \* the call: quote_text, subtitle, style
    dCard         \* what was drawn: the lines, their y, the subtitle's y

filterVars == <<fQuotes, fBefore, fArgs, fResult, fpc>>
cliVars == <<cmd, opts, pc, outcome, console, started, returned, exc, tModel,
             inputExists, transcript, quotesFile, cliQuotes, cards>>

batchVars == <<bQuotes, bStyle, bpc, bIndex, bPaths, bFiles, bDir>>

cfgVars == <<cfgpc, config, cfgPrev, cfgLast, cfgSets>>

quoteVars == <<qpc, qArgs, qObj, qDict, qBack>>

trVars == <<tpc, tIn, trModel, trFiles, trAtCall, trLog, trRaised, trCalls>>

exVars == <<epc, eIn, eFile, eAtCall, eLog, eRaised, eQuotes>>

wrapVars == <<wpc, wText, wFont, wMaxWidth, wLines>>

drawVars == <<dpc, dGen, dCall, dCard>>

partVars == <<quoteVars, trVars, exVars, wrapVars, drawVars>>

vars == <<filterVars, cliVars, batchVars, cfgVars, partVars>>

(***************************************************************************)
(* Bounds of the model.                                                    *)
(***************************************************************************)
MaxLen == 3        \* longest quote list
MaxScore == 2      \* scores are 0..MaxScore (the prompt's rubric is 0-10)
MaxItems == 2      \* most quotes in an LLM response or a quotes file (CLI runs)
MaxBatch == 1001   \* length of the long list given to generate_batch
MaxKeyLen == 2     \* most components of a dot-separated configuration key
MaxSets == 1       \* most Config.set calls in a run
MaxCalls == 2      \* most transcribe calls on one transcriber
MaxText == 6       \* most characters of a text given to _wrap_text
MaxWidth == 5      \* largest max_width given to _wrap_text
MaxQuoteChars == 400  \* most characters of a quote drawn on a card

(***************************************************************************)
(* Python values.  None and "no int" are kept apart from the strings and   *)
(* integers they stand beside by wrapping the optional arguments.          *)
(***************************************************************************)
NoneStr == "<None>"
NoCount == [given |-> FALSE, n |-> 0]
Count(n) == [given |-> TRUE, n |-> n]

Min(a, b) == IF a < b THEN a ELSE b
Max(a, b) == IF a > b THEN a ELSE b

\* Python truthiness of an Optional[str] and of an Optional[int]
StrTruthy(s) == s # NoneStr /\ s # ""
CountTruthy(c) == c.given /\ c.n # 0

\* s[:n] of a Python list, n any integer
PySlice(s, n) ==
    LET stop == IF n >= 0 THEN Min(n, Len(s)) ELSE Max(Len(s) + n, 0)
    IN  SubSeq(s, 1, stop)

(***************************************************************************)
(* list.sort(key=lambda q: q.score, reverse=True): a stable sort, so       *)
(* quotes of equal score keep their relative order.                        *)
(***************************************************************************)
RECURSIVE InsertDesc(_, _)
InsertDesc(sorted, q) ==
    IF sorted = <<>> THEN <<q>>
    ELSE IF Head(sorted).score >= q.score
         THEN <<Head(sorted)>> \o InsertDesc(Tail(sorted), q)
         ELSE <<q>> \o sorted

RECURSIVE SortByScoreDescFrom(_, _)
SortByScoreDescFrom(acc, rest) ==
    IF rest = <<>> THEN acc
    ELSE SortByScoreDescFrom(InsertDesc(acc, Head(rest)), Tail(rest))

SortMissing(s) == s

SortByScoreDesc(s) == SortByScoreDescFrom(<<>>, s)

(***************************************************************************)
(* QuoteExtractor.filter_quotes.  `filtered` starts as an alias of the     *)
(* caller's list; each list comprehension rebinds it to a fresh list; the  *)
(* sort is in place on whatever list `filtered` is bound to then.          *)
(***************************************************************************)
ByScoreStrict(quotes, min_score) ==
    IF min_score > 0
    THEN SelectSeq(quotes, LAMBDA q : q.score > min_score)
    ELSE quotes

ByScore(quotes, min_score) ==
    IF min_score > 0
    THEN SelectSeq(quotes, LAMBDA q : q.score >= min_score)
    ELSE quotes

ByCategory(quotes, category) ==
    IF StrTruthy(category)
    THEN SelectSeq(quotes, LAMBDA q : q.category = category)
    ELSE quotes

Truncate(sorted, max_count) ==
    IF CountTruthy(max_count) THEN PySlice(sorted, max_count.n) ELSE sorted

filter_quotes(quotes, min_score, category, max_count) ==
    Truncate(SortByScoreDesc(ByCategory(ByScore(quotes, min_score), category)),
             max_count)

\* the caller's list object after the call
CallerListAfterFilter(quotes, min_score, category) ==
    IF min_score > 0 \/ StrTruthy(category)
    THEN quotes
    ELSE SortByScoreDesc(quotes)

(***************************************************************************)
(* Specification SpecFilter: filter_quotes applied to every bounded input. *)
(* A quote carries the identity of the Python object (id), so that equal   *)
(* looking quotes stay distinguishable.                                    *)
(***************************************************************************)
Categories == {"c1", "c2"}
Scores == 0 .. MaxScore

RECURSIVE QuoteLists(_)
QuoteLists(n) ==
    IF n = 0 THEN {<<>>}
    ELSE LET shorter == QuoteLists(n - 1)
         IN  shorter \cup
             { Append(s, [id |-> Len(s) + 1, category |-> c, score |-> sc]) :
                 s \in {t \in shorter : Len(t) = n - 1},
                 c \in Categories, sc \in Scores }

MinScoreArgs == -1 .. (MaxScore + 1)
CategoryArgs == {NoneStr, "", "c1"}
MaxCountArgs == {NoCount} \cup {Count(n) : n \in -1 .. (MaxLen + 1)}

nonFilter == <<cliVars, batchVars, cfgVars, partVars>>

FilterIdle ==
    /\ fQuotes = <<>>
    /\ fBefore = <<>>
    /\ fArgs = [min_score |-> 0, category |-> NoneStr, max_count |-> NoCount]
    /\ fResult = <<>>
    /\ fpc = "idle"

FilterInit ==
    /\ fQuotes \in QuoteLists(MaxLen)
    /\ fBefore = fQuotes
    /\ fArgs \in [min_score : MinScoreArgs, category : CategoryArgs,
                  max_count : MaxCountArgs]
    /\ fResult = <<>>
    /\ fpc = "call"

FilterCall ==
    /\ fpc = "call"
    /\ fResult' = filter_quotes(fQuotes, fArgs.min_score, fArgs.category,
                                fArgs.max_count)
    /\ fQuotes' = CallerListAfterFilter(fQuotes, fArgs.min_score, fArgs.category)
    /\ fpc' = "returned"
    /\ UNCHANGED <<fBefore, fArgs>>
    /\ UNCHANGED nonFilter

FilterNext == FilterCall

(***************************************************************************)
(* Quote (extractor.py).  A Quote object carries its class; to_dict gives  *)
(* the five-key dictionary, from_dict fills the missing keys.              *)
(***************************************************************************)
DictGet(d, k, default) == IF k \in DOMAIN d THEN d[k] ELSE default

\* a constructor that keeps the timestamp it is given
QuoteKeepsTimestamp(text, context, category, score, timestamp) ==
    [class |-> "Quote", text |-> text, context |-> context,
     category |-> category, score |-> score, timestamp |-> timestamp]

\* `timestamp or {}`: None and the empty dictionary both give {}
Quote(text, context, category, score, timestamp) ==
    [class |-> "Quote", text |-> text, context |-> context,
     category |-> category, score |-> score,
     timestamp |-> IF timestamp \in {"None", "{}"} THEN "{}" ELSE timestamp]

to_dict(q) ==
    [text |-> q.text, context |-> q.context, category |-> q.category,
     score |-> q.score, timestamp |-> q.timestamp]

from_dict(d) ==
    Quote(DictGet(d, "text", ""), DictGet(d, "context", ""),
          DictGet(d, "category", ""), DictGet(d, "score", 0),
          DictGet(d, "timestamp", "{}"))

MapSeq(s, Op(_)) == [i \in 1 .. Len(s) |-> Op(s[i])]

(***************************************************************************)
(* QuoteExtractor.extract and extract_from_file.  `llm` is what the hosted *)
(* endpoint does: the call raises ("api_error"), the content is not JSON   *)
(* ("invalid_json"), or it is a JSON object whose "quotes" are `items`.    *)
(***************************************************************************)
ItemToQuote(item) ==
    Quote(DictGet(item, "text", ""), DictGet(item, "context", ""),
          DictGet(item, "category", ""), DictGet(item, "score", 0), "None")

\* an extract that takes an unreadable response for "no quotes"
extractLenient(llm) ==
    IF llm.kind = "api_error" THEN [raised |-> "APIError", quotes |-> <<>>]
    ELSE IF llm.kind \in {"invalid_json", "json_array"}
         THEN [raised |-> "", quotes |-> <<>>]
         ELSE [raised |-> "", quotes |-> MapSeq(llm.items, ItemToQuote)]

extract(llm) ==
    IF llm.kind = "api_error" THEN [raised |-> "APIError", quotes |-> <<>>]
    ELSE IF llm.kind = "invalid_json"
         THEN [raised |-> "JSONDecodeError", quotes |-> <<>>]
    ELSE IF llm.kind = "json_array"
         THEN [raised |-> "AttributeError", quotes |-> <<>>]
         ELSE [raised |-> "", quotes |-> MapSeq(llm.items, ItemToQuote)]

extract_from_file(input_exists, output_given, llm, file) ==
    IF ~input_exists
    THEN [raised |-> "FileNotFoundError", quotes |-> <<>>, file |-> file,
          called_llm |-> FALSE]
    ELSE LET r == extract(llm)
         IN  IF r.raised # ""
             THEN [raised |-> r.raised, quotes |-> <<>>, file |-> file,
                   called_llm |-> TRUE]
             ELSE [raised |-> "", quotes |-> r.quotes,
                   file |-> IF output_given
                            THEN [state |-> "ok", data |-> MapSeq(r.quotes, to_dict)]
                            ELSE file,
                   called_llm |-> TRUE]

(***************************************************************************)
(* AudioTranscriber.transcribe.  `ext` is what whisper does: "ok",         *)
(* "load_error" (load_model raises) or "transcribe_error".                 *)
(***************************************************************************)
transcribe_audio(model, audio_exists, output_given, ext, files) ==
    IF ~audio_exists
    THEN [raised |-> "FileNotFoundError", model |-> model, files |-> files]
    ELSE IF model = "None" /\ ext = "load_error"
    THEN [raised |-> "LoadError", model |-> model, files |-> files]
    ELSE IF ext = "transcribe_error"
    THEN [raised |-> "TranscribeError", model |-> "loaded", files |-> files]
    ELSE [raised |-> "", model |-> "loaded",
          files |-> IF output_given THEN [txt |-> "new", json |-> "new"]
                    ELSE files]

WhisperOutcomes == {"ok", "load_error", "transcribe_error"}

(***************************************************************************)
(* CardGenerator.generate and generate_batch.                              *)
(***************************************************************************)
RECURSIVE Digits(_)
Digits(n) == IF n < 10 THEN <<n>> ELSE Append(Digits(n \div 10), n % 10)

RECURSIVE ZeroPad(_, _)
ZeroPad(ds, width) == IF Len(ds) >= width THEN ds ELSE ZeroPad(<<0>> \o ds, width)

PadWidth == 3

CardPathWrapping(i) ==
    [dir |-> "output_dir",
     name |-> <<"card_">> \o ZeroPad(Digits(i % 1000), PadWidth) \o <<".png">>]

\* f"card_{i:03d}.png" inside output_dir
CardPath(i) ==
    [dir |-> "output_dir", name |-> <<"card_">> \o ZeroPad(Digits(i), PadWidth) \o <<".png">>]

TemplateOfLower(style) ==
    IF style \in {"minimal", "Minimal"} THEN "minimal"
    ELSE IF style = "elegant" THEN "elegant"
    ELSE IF style \in {"modern", "MODERN"} THEN "modern"
    ELSE "minimal"

\* the template generate() draws for a style
TemplateOf(style) ==
    IF style = "minimal" THEN "minimal"
    ELSE IF style = "elegant" THEN "elegant"
    ELSE IF style = "modern" THEN "modern"
    ELSE "minimal"

\* the file generate() writes
generate(quote_text, subtitle, output_path, style) ==
    [path |-> output_path, text |-> quote_text, subtitle |-> subtitle,
     template |-> TemplateOf(style)]

\* generate_batch's reading of one element of `quotes`: an object with a
\* `text` attribute, a dictionary, or anything else (rendered with str)
QuoteText(quote) ==
    IF quote.class = "Quote" THEN quote.text
    ELSE IF quote.class = "dict" THEN DictGet(quote.items, "text", "")
    ELSE quote.str

QuoteSubtitle(quote) ==
    IF quote.class = "Quote" THEN quote.category
    ELSE IF quote.class = "dict" THEN DictGet(quote.items, "category", "")
    ELSE ""

\* the body of generate_batch's loop for the i-th quote
BatchCard(quote, i, style) ==
    generate(QuoteText(quote), QuoteSubtitle(quote), CardPath(i), style)

\* generate_batch; fail_at = 0: no card fails, k > 0: generate raises on the
\* k-th.  output_paths is the local list when the call ends either way.
generate_batch(qs, style, fail_at) ==
    LET n == IF fail_at = 0 THEN Len(qs) ELSE fail_at - 1
        written == [i \in 1 .. n |-> BatchCard(qs[i], i, style)]
    IN  [raised |-> IF fail_at = 0 THEN "" ELSE "RenderError",
         written |-> written,
         output_paths |-> [i \in 1 .. n |-> written[i].path]]

(***************************************************************************)
(* The CLI commands' inputs.                                               *)
(***************************************************************************)
Texts == {"a", "b"}

RECURSIVE SeqsUpTo(_, _)
SeqsUpTo(S, n) ==
    IF n = 0 THEN {<<>>}
    ELSE LET shorter == SeqsUpTo(S, n - 1)
         IN  shorter \cup
             {Append(s, x) : s \in {t \in shorter : Len(t) = n - 1}, x \in S}

Items == [text : Texts, category : {"c1"}, score : Scores]
ItemLists == SeqsUpTo(Items, MaxItems)

LLMOutcomes ==
    {[kind |-> "api_error", items |-> <<>>],
     [kind |-> "invalid_json", items |-> <<>>]}
    \cup {[kind |-> "json", items |-> l] : l \in ItemLists}

Commands == {"transcribe", "extract", "generate", "pipeline"}
MinScoreOpts == 0 .. (MaxScore + 1)
MaxCountOpts == {-1, 0, 1}
CliStyles == {"minimal", "modern"}

NoFile == [state |-> "absent", data |-> <<>>]
OldQuotesFile ==
    [state |-> "ok", data |-> <<to_dict(Quote("old", "", "c1", 0, "None"))>>]

OptsFor(c) ==
    IF c = "transcribe"
    THEN [output_given : BOOLEAN, min_score : {0}, max_count : {0}, style : {"minimal"}]
    ELSE IF c = "extract"
    THEN [output_given : BOOLEAN, min_score : MinScoreOpts, max_count : {0},
          style : {"minimal"}]
    ELSE IF c = "generate"
    THEN [output_given : {TRUE}, min_score : MinScoreOpts, max_count : MaxCountOpts,
          style : CliStyles]
    ELSE [output_given : {TRUE}, min_score : MinScoreOpts, max_count : {0},
          style : CliStyles]

\* the quotes file a command starts from: generate reads it, extract and
\* pipeline overwrite it
QuotesFilesFor(c) ==
    IF c = "generate"
    THEN {NoFile, [state |-> "invalid", data |-> <<>>]}
         \cup {[state |-> "ok", data |-> MapSeq(l, LAMBDA it : to_dict(ItemToQuote(it)))] :
                 l \in ItemLists}
    ELSE IF c = "transcribe" THEN {NoFile}
    ELSE {NoFile, OldQuotesFile}

CliIdle ==
    /\ cmd = "none"
    /\ opts = [output_given |-> TRUE, min_score |-> 0, max_count |-> 0,
               style |-> "minimal"]
    /\ pc = "idle"
    /\ outcome = "running"
    /\ console = <<>>
    /\ started = <<>>
    /\ returned = <<>>
    /\ exc = ""
    /\ tModel = "None"
    /\ inputExists = TRUE
    /\ transcript = [txt |-> "absent", json |-> "absent"]
    /\ quotesFile = NoFile
    /\ cliQuotes = <<>>
    /\ cards = <<>>

CliInit ==
    /\ cmd \in Commands
    /\ opts \in OptsFor(cmd)
    /\ pc = "setup"
    /\ outcome = "running"
    /\ console = <<>>
    /\ started = <<>>
    /\ returned = <<>>
    /\ exc = ""
    /\ tModel = "None"
    /\ inputExists \in (IF cmd = "generate" THEN {TRUE} ELSE BOOLEAN)
    /\ transcript \in (IF cmd \in {"transcribe", "pipeline"}
                       THEN {[txt |-> "absent", json |-> "absent"],
                             [txt |-> "old", json |-> "old"]}
                       ELSE {[txt |-> "absent", json |-> "absent"]})
    /\ quotesFile \in QuotesFilesFor(cmd)
    /\ cliQuotes = <<>>
    /\ cards = <<>>

(***************************************************************************)
(* The except clauses of cli.py: each prints its failure message and       *)
(* raises typer.Exit(1).                                                   *)
(***************************************************************************)
TranscribeExcept == [outcome |-> "exit1", msg |-> "transcribe_failed"]
ExtractExcept == [outcome |-> "exit1", msg |-> "extract_failed"]
GenerateExceptNoExit == [outcome |-> "exit0", msg |-> "generate_failed"]
GenerateExcept == [outcome |-> "exit1", msg |-> "generate_failed"]
PipelineTranscribeExceptNoExit ==
    [outcome |-> "running", msg |-> "transcribe_failed", pc |-> "p_extract"]
PipelineTranscribeExcept ==
    [outcome |-> "exit1", msg |-> "transcribe_failed", pc |-> "done"]
PipelineExtractExcept ==
    [outcome |-> "exit1", msg |-> "extract_failed", pc |-> "done"]
PipelineRenderExcept ==
    [outcome |-> "exit1", msg |-> "render_failed", pc |-> "done"]

\* `raise typer.Exit(0)` sits inside the try block whose clause is
\* `except Exception`; typer.Exit is click's Exit, a RuntimeError, so the
\* clause catches it.
ExitCaughtByExcept == TRUE

nonCli == <<filterVars, batchVars, cfgVars, partVars>>
Fixed == UNCHANGED <<cmd, opts, inputExists, nonCli>>

\* an exception no try block covers ends the process with a traceback
Uncaught(where) ==
    /\ outcome' = "uncaught"
    /\ exc' = where
    /\ pc' = "done"
    /\ UNCHANGED <<console, started, returned, tModel, transcript, quotesFile,
                   cliQuotes, cards>>

Goto(next) ==
    /\ pc' = next
    /\ UNCHANGED <<outcome, exc, console, started, returned, tModel, transcript,
                   quotesFile, cliQuotes, cards>>

(***************************************************************************)
(* procast transcribe                                                      *)
(***************************************************************************)
CmdTranscribeSetup ==
    /\ cmd = "transcribe" /\ pc = "setup"
    /\ \E mkdir_ok \in BOOLEAN :
         IF ~opts.output_given /\ ~mkdir_ok THEN Uncaught("mkdir") ELSE Goto("run")
    /\ Fixed

CmdTranscribeRun ==
    /\ cmd = "transcribe" /\ pc = "run"
    /\ started' = Append(started, "transcribe")
    /\ \E ext \in WhisperOutcomes :
         LET r == transcribe_audio(tModel, inputExists, TRUE, ext, transcript)
         IN  /\ tModel' = r.model
             /\ transcript' = r.files
             /\ IF r.raised # ""
                THEN /\ exc' = "stage"
                     /\ console' = Append(console, TranscribeExcept.msg)
                     /\ outcome' = TranscribeExcept.outcome
                     /\ UNCHANGED returned
                ELSE /\ returned' = Append(returned, "transcribe")
                     /\ console' = Append(console, "transcribe_ok")
                     /\ outcome' = "exit0"
                     /\ UNCHANGED exc
    /\ pc' = "done"
    /\ UNCHANGED <<quotesFile, cliQuotes, cards>>
    /\ Fixed

(***************************************************************************)
(* procast extract                                                         *)
(***************************************************************************)
CmdExtractSetup ==
    /\ cmd = "extract" /\ pc = "setup"
    /\ \E ctor_ok \in BOOLEAN, mkdir_ok \in BOOLEAN :
         IF ~ctor_ok THEN Uncaught("ctor")
         ELSE IF ~opts.output_given /\ ~mkdir_ok THEN Uncaught("mkdir")
         ELSE Goto("run")
    /\ Fixed

CmdExtractRun ==
    /\ cmd = "extract" /\ pc = "run"
    /\ started' = Append(started, "extract")
    /\ \E llm \in LLMOutcomes :
         LET r == extract_from_file(inputExists, TRUE, llm, quotesFile)
         IN  /\ quotesFile' = r.file
             /\ IF r.raised # ""
                THEN /\ exc' = "stage"
                     /\ console' = Append(console, ExtractExcept.msg)
                     /\ outcome' = ExtractExcept.outcome
                     /\ UNCHANGED <<returned, cliQuotes>>
                ELSE /\ returned' = Append(returned, "extract")
                     /\ cliQuotes' =
                            IF opts.min_score > 0
                            THEN filter_quotes(r.quotes, opts.min_score, NoneStr, NoCount)
                            ELSE r.quotes
                     /\ console' = Append(console, "extract_ok")
                     /\ outcome' = "exit0"
                     /\ UNCHANGED exc
    /\ pc' = "done"
    /\ UNCHANGED <<tModel, transcript, cards>>
    /\ Fixed

(***************************************************************************)
(* procast generate                                                        *)
(***************************************************************************)
CmdGenerateLoad ==
    /\ cmd = "generate" /\ pc = "setup"
    /\ IF quotesFile.state # "ok"
       THEN Uncaught("read_input")
       ELSE /\ cliQuotes' = MapSeq(quotesFile.data, from_dict)
            /\ pc' = "filter"
            /\ UNCHANGED <<outcome, exc, console, started, returned, tModel,
                           transcript, quotesFile, cards>>
    /\ Fixed

CmdGenerateFilter ==
    /\ cmd = "generate" /\ pc = "filter"
    /\ IF opts.min_score > 0 \/ opts.max_count > 0
       THEN \E ctor_ok \in BOOLEAN :
              IF ~ctor_ok THEN Uncaught("ctor")
              ELSE /\ cliQuotes' =
                          filter_quotes(cliQuotes, opts.min_score, NoneStr,
                                        IF opts.max_count > 0
                                        THEN Count(opts.max_count) ELSE NoCount)
                   /\ pc' = "gen_setup"
                   /\ UNCHANGED <<outcome, exc, console, started, returned, tModel,
                                  transcript, quotesFile, cards>>
       ELSE Goto("gen_setup")
    /\ Fixed

CmdGenerateSetup ==
    /\ cmd = "generate" /\ pc = "gen_setup"
    /\ \E ctor_ok \in BOOLEAN :
         IF ~ctor_ok THEN Uncaught("ctor") ELSE Goto("run")
    /\ Fixed

CmdGenerateRun ==
    /\ cmd = "generate" /\ pc = "run"
    /\ started' = Append(started, "render")
    /\ \E fail_at \in 0 .. Len(cliQuotes) :
         LET r == generate_batch(cliQuotes, opts.style, fail_at)
         IN  /\ cards' = cards \o r.written
             /\ IF r.raised # ""
                THEN /\ exc' = "stage"
                     /\ console' = Append(console, GenerateExcept.msg)
                     /\ outcome' = GenerateExcept.outcome
                     /\ UNCHANGED returned
                ELSE /\ returned' = Append(returned, "render")
                     /\ console' = Append(console, "generate_ok")
                     /\ outcome' = "exit0"
                     /\ UNCHANGED exc
    /\ pc' = "done"
    /\ UNCHANGED <<tModel, transcript, quotesFile, cliQuotes>>
    /\ Fixed

(***************************************************************************)
(* procast pipeline                                                        *)
(***************************************************************************)
PipelineSetup ==
    /\ cmd = "pipeline" /\ pc = "setup"
    /\ \E mkdir_ok \in BOOLEAN :
         IF ~mkdir_ok THEN Uncaught("mkdir") ELSE Goto("p_transcribe")
    /\ Fixed

PipelineTranscribe ==
    /\ cmd = "pipeline" /\ pc = "p_transcribe"
    /\ started' = Append(started, "transcribe")
    /\ \E ext \in WhisperOutcomes :
         LET r == transcribe_audio(tModel, inputExists, TRUE, ext, transcript)
         IN  /\ tModel' = r.model
             /\ transcript' = r.files
             /\ IF r.raised # ""
                THEN /\ exc' = "stage"
                     /\ console' = Append(console, PipelineTranscribeExcept.msg)
                     /\ outcome' = PipelineTranscribeExcept.outcome
                     /\ pc' = PipelineTranscribeExcept.pc
                     /\ UNCHANGED returned
                ELSE /\ returned' = Append(returned, "transcribe")
                     /\ pc' = "p_extract"
                     /\ UNCHANGED <<exc, console, outcome>>
    /\ UNCHANGED <<quotesFile, cliQuotes, cards>>
    /\ Fixed

PipelineExtract ==
    /\ cmd = "pipeline" /\ pc = "p_extract"
    /\ \E ctor_ok \in BOOLEAN, llm \in LLMOutcomes :
         IF ~ctor_ok THEN Uncaught("ctor")
         ELSE
         LET r == extract_from_file(transcript.txt # "absent", TRUE, llm, quotesFile)
             filtered == filter_quotes(r.quotes, opts.min_score, NoneStr, NoCount)
         IN  /\ started' = Append(started, "extract")
             /\ quotesFile' = r.file
             /\ IF r.raised # ""
                THEN /\ exc' = "stage"
                     /\ console' = Append(console, PipelineExtractExcept.msg)
                     /\ outcome' = PipelineExtractExcept.outcome
                     /\ pc' = PipelineExtractExcept.pc
                     /\ UNCHANGED <<returned, cliQuotes>>
                ELSE /\ returned' = Append(returned, "extract")
                     /\ cliQuotes' = filtered
                     /\ IF filtered = <<>>
                        THEN IF ExitCaughtByExcept
                             THEN /\ exc' = "exit0_requested"
                                  /\ console' = console \o
                                        <<"no_quotes_warning", PipelineExtractExcept.msg>>
                                  /\ outcome' = PipelineExtractExcept.outcome
                                  /\ pc' = PipelineExtractExcept.pc
                             ELSE /\ console' = Append(console, "no_quotes_warning")
                                  /\ outcome' = "exit0"
                                  /\ pc' = "done"
                                  /\ UNCHANGED exc
                        ELSE /\ pc' = "p_render"
                             /\ UNCHANGED <<exc, console, outcome>>
             /\ UNCHANGED <<tModel, transcript, cards>>
    /\ Fixed

PipelineRender ==
    /\ cmd = "pipeline" /\ pc = "p_render"
    /\ \E ctor_ok \in BOOLEAN, fail_at \in 0 .. Len(cliQuotes) :
         IF ~ctor_ok THEN Uncaught("ctor")
         ELSE
         LET r == generate_batch(cliQuotes, opts.style, fail_at)
         IN  /\ started' = Append(started, "render")
             /\ cards' = cards \o r.written
             /\ IF r.raised # ""
                THEN /\ exc' = "stage"
                     /\ console' = Append(console, PipelineRenderExcept.msg)
                     /\ outcome' = PipelineRenderExcept.outcome
                     /\ pc' = PipelineRenderExcept.pc
                     /\ UNCHANGED returned
                ELSE /\ returned' = Append(returned, "render")
                     /\ console' = Append(console, "all_done")
                     /\ outcome' = "exit0"
                     /\ pc' = "done"
                     /\ UNCHANGED exc
             /\ UNCHANGED <<tModel, transcript, quotesFile, cliQuotes>>
    /\ Fixed

CliNext ==
    \/ CmdTranscribeSetup \/ CmdTranscribeRun
    \/ CmdExtractSetup \/ CmdExtractRun
    \/ CmdGenerateLoad \/ CmdGenerateFilter \/ CmdGenerateSetup \/ CmdGenerateRun
    \/ PipelineSetup \/ PipelineTranscribe \/ PipelineExtract \/ PipelineRender

(***************************************************************************)
(* Specification SpecBatch: generate_batch called on bounded inputs.  A     *)
(* generate call can fail for reasons of the environment (the font, the    *)
(* disk); the exception then leaves generate_batch.                        *)
(***************************************************************************)
BatchElems ==
    {Quote(t, "", "c1", 1, "None") : t \in Texts}
    \cup {[class |-> "dict", items |-> [text |-> "d", category |-> "c2"]],
          [class |-> "dict", items |-> [score |-> 1]],
          [class |-> "str", str |-> "plain"]}

BatchStyles == {"minimal", "elegant", "modern", "", "Minimal", "MODERN", "fancy"}

LongList == [i \in 1 .. MaxBatch |-> Quote("a", "", "c1", 1, "None")]

nonBatch == <<filterVars, cliVars, cfgVars, partVars>>

BatchIdle ==
    /\ bQuotes = <<>>
    /\ bStyle = "minimal"
    /\ bpc = "idle"
    /\ bIndex = 0
    /\ bPaths = <<>>
    /\ bFiles = <<>>
    /\ bDir = FALSE

BatchInit ==
    /\ \/ bQuotes \in SeqsUpTo(BatchElems, MaxItems) /\ bStyle \in BatchStyles
       \/ bQuotes = LongList /\ bStyle = "minimal"
    /\ bpc = "call"
    /\ bIndex = 0
    /\ bPaths = <<>>
    /\ bFiles = <<>>
    /\ bDir \in BOOLEAN

\* the call returns: every quote got its card
BatchCallReturns ==
    /\ bpc = "call"
    /\ LET r == generate_batch(bQuotes, bStyle, 0)
       IN  /\ bFiles' = r.written
           /\ bPaths' = r.output_paths
           /\ bIndex' = Len(r.written)
    /\ bDir' = TRUE
    /\ bpc' = "returned"
    /\ UNCHANGED <<bQuotes, bStyle>>
    /\ UNCHANGED nonBatch

\* generate raises on the fail_at-th quote: the exception leaves the call
BatchCallRaises ==
    /\ bpc = "call"
    /\ \E fail_at \in 1 .. Len(bQuotes) :
         LET r == generate_batch(bQuotes, bStyle, fail_at)
         IN  /\ bFiles' = r.written
             /\ bPaths' = r.output_paths
             /\ bIndex' = Len(r.written)
    /\ bDir' = TRUE
    /\ bpc' = "raised"
    /\ UNCHANGED <<bQuotes, bStyle>>
    /\ UNCHANGED nonBatch

BatchNext == BatchCallReturns \/ BatchCallRaises

(***************************************************************************)
(* Config (config.py).  A JSON value is a tree: a function from paths      *)
(* (sequences of keys) to the node there, Dict for a dictionary and the    *)
(* value itself for anything else.  The root is the path <<>>.  A          *)
(* dot-separated key is kept as the list key.split(".") gives.             *)
(***************************************************************************)
Dict == "<dict>"
Leaf(v) == (<<>> :> v)
EmptyDict == Leaf(Dict)

IsPrefix(p, q) == Len(p) <= Len(q) /\ SubSeq(q, 1, Len(p)) = p

\* the value stored at path p of tree t
Subtree(t, p) ==
    LET below == {q \in DOMAIN t : IsPrefix(p, q)}
    IN  [r \in {SubSeq(q, Len(p) + 1, Len(q)) : q \in below} |-> t[p \o r]]

\* container[key] = value, the container being the dictionary at path p
Assign(t, p, key, value) ==
    LET at == Append(p, key)
        kept == {q \in DOMAIN t : ~IsPrefix(at, q)}
        new == {at \o r : r \in DOMAIN value}
    IN  [q \in kept \cup new |->
            IF q \in new THEN value[SubSeq(q, Len(at) + 1, Len(q))] ELSE t[q]]

RECURSIVE GetWalkUnchecked(_, _, _, _)
GetWalkUnchecked(t, p, rest, default) ==
    IF rest = <<>> THEN [raised |-> "", value |-> Subtree(t, p)]
    ELSE IF t[p] # Dict THEN [raised |-> "TypeError", value |-> default]
    ELSE IF Append(p, Head(rest)) \in DOMAIN t
         THEN GetWalkUnchecked(t, Append(p, Head(rest)), Tail(rest), default)
         ELSE [raised |-> "", value |-> default]

\* the loop of Config.get: p is where `value` is, rest the keys still to take
RECURSIVE GetWalk(_, _, _, _)
GetWalk(t, p, rest, default) ==
    IF rest = <<>> THEN [raised |-> "", value |-> Subtree(t, p)]
    ELSE IF t[p] = Dict /\ Append(p, Head(rest)) \in DOMAIN t
         THEN GetWalk(t, Append(p, Head(rest)), Tail(rest), default)
         ELSE [raised |-> "", value |-> default]

ConfigGetUnchecked(t, keys, default) == GetWalkUnchecked(t, <<>>, keys, default)

ConfigGet(t, keys, default) == GetWalk(t, <<>>, keys, default)

\* Config.set: p is where `config` is, rest the keys still to take.  `in`
\* and item assignment on anything but a dictionary raise TypeError (a str,
\* a number, None and a list alike, since the keys are strings).
RECURSIVE SetWalk(_, _, _, _)
SetWalk(t, p, rest, value) ==
    IF t[p] # Dict THEN [raised |-> "TypeError", config |-> t]
    ELSE IF Len(rest) = 1
         THEN [raised |-> "", config |-> Assign(t, p, rest[1], value)]
         ELSE LET c == Append(p, Head(rest))
                  t2 == IF c \in DOMAIN t THEN t ELSE Assign(t, p, Head(rest), EmptyDict)
              IN  SetWalk(t2, c, Tail(rest), value)

ConfigSet(t, keys, value) == SetWalk(t, <<>>, keys, value)

\* Config._default_config
DefaultConfig ==
    (<<>> :> Dict)
    @@ (<<"llm">> :> Dict)
    @@ (<<"llm", "provider">> :> "openai")
    @@ (<<"llm", "model">> :> "gpt-4-turbo-preview")
    @@ (<<"llm", "api_key">> :> "")
    @@ (<<"llm", "base_url">> :> "https://api.openai.com/v1")
    @@ (<<"llm", "temperature">> :> "0.7")
    @@ (<<"llm", "max_tokens">> :> "2000")
    @@ (<<"whisper">> :> Dict)
    @@ (<<"whisper", "model">> :> "base")
    @@ (<<"whisper", "language">> :> "zh")
    @@ (<<"card">> :> Dict)
    @@ (<<"card", "width">> :> "1080")
    @@ (<<"card", "height">> :> "1920")
    @@ (<<"card", "background_color">> :> "#1a1a2e")
    @@ (<<"card", "text_color">> :> "#ffffff")
    @@ (<<"card", "accent_color">> :> "#e94560")
    @@ (<<"card", "font_path">> :> "None")
    @@ (<<"card", "font_size">> :> "48")
    @@ (<<"card", "padding">> :> "100")
    @@ (<<"output">> :> Dict)
    @@ (<<"output", "transcript_dir">> :> "output/transcripts")
    @@ (<<"output", "quotes_dir">> :> "output/quotes")
    @@ (<<"output", "cards_dir">> :> "output/cards")

\* Config._load_config: the file's JSON, or the default configuration
LoadConfig(file) ==
    IF file.state = "absent" THEN [raised |-> "", config |-> DefaultConfig]
    ELSE IF file.state = "invalid"
         THEN [raised |-> "JSONDecodeError", config |-> EmptyDict]
         ELSE [raised |-> "", config |-> file.tree]

Unset == "<unset>"
EnvTruthy(v) == v # Unset /\ v # ""

\* self.config["llm"][key] = value
SetLlmItem(t, key, value) ==
    IF <<"llm">> \notin DOMAIN t THEN [raised |-> "KeyError", config |-> t]
    ELSE IF t[<<"llm">>] # Dict THEN [raised |-> "TypeError", config |-> t]
    ELSE [raised |-> "", config |-> Assign(t, <<"llm">>, key, Leaf(value))]

EnvOverrides ==
    << <<"OPENAI_API_KEY", "api_key">>, <<"OPENAI_BASE_URL", "base_url">>,
       <<"ANTHROPIC_API_KEY", "anthropic_key">>, <<"GOOGLE_API_KEY", "google_key">> >>

RECURSIVE OverrideFrom(_, _, _)
OverrideFrom(t, env, n) ==
    IF n > Len(EnvOverrides) THEN [raised |-> "", config |-> t]
    ELSE IF EnvTruthy(env[EnvOverrides[n][1]])
         THEN LET r == SetLlmItem(t, EnvOverrides[n][2], env[EnvOverrides[n][1]])
              IN  IF r.raised # "" THEN r ELSE OverrideFrom(r.config, env, n + 1)
         ELSE OverrideFrom(t, env, n + 1)

\* Config._override_with_env
OverrideWithEnv(t, env) == OverrideFrom(t, env, 1)

\* Config.__init__
ConfigNew(file, env) ==
    LET loaded == LoadConfig(file)
    IN  IF loaded.raised # "" THEN loaded ELSE OverrideWithEnv(loaded.config, env)

(***************************************************************************)
(* Specification SpecConfig: a Config is constructed from a configuration  *)
(* file and an environment, then read and written.                         *)
(***************************************************************************)
KeyParts == {"llm", "api_key"}
Keys == SeqsUpTo(KeyParts, MaxKeyLen) \ {<<>>}

\* what the file holds under "llm": nothing, a string, a dictionary with or
\* without api_key and base_url, or a dictionary whose api_key is a dictionary
LlmOptions ==
    {[kind |-> k, api_key |-> FALSE, base_url |-> FALSE] :
        k \in {"absent", "leaf", "nested"}}
    \cup [kind : {"dict"}, api_key : BOOLEAN, base_url : BOOLEAN]

\* the JSON objects the configuration file may hold
FileTree(llm, other) ==
    (<<>> :> Dict)
    @@ (IF other THEN (<<"whisper">> :> Dict) @@ (<<"whisper", "model">> :> "tiny")
        ELSE <<>>)
    @@ (IF llm.kind = "absent" THEN <<>>
        ELSE IF llm.kind = "leaf" THEN (<<"llm">> :> "file_llm")
        ELSE IF llm.kind = "nested"
        THEN (<<"llm">> :> Dict) @@ (<<"llm", "api_key">> :> Dict)
             @@ (<<"llm", "api_key", "llm">> :> "file_deep")
        ELSE (<<"llm">> :> Dict)
             @@ (IF llm.api_key THEN (<<"llm", "api_key">> :> "file_key") ELSE <<>>)
             @@ (IF llm.base_url THEN (<<"llm", "base_url">> :> "file_url") ELSE <<>>))

ConfigFiles ==
    {[state |-> "absent", tree |-> EmptyDict],
     [state |-> "invalid", tree |-> EmptyDict]}
    \cup {[state |-> "object", tree |-> FileTree(l, o)] :
            l \in LlmOptions, o \in BOOLEAN}

Envs ==
    [OPENAI_API_KEY : {Unset, "", "env_key"},
     OPENAI_BASE_URL : {Unset, "", "env_url"},
     ANTHROPIC_API_KEY : {Unset, "env_anthropic"},
     GOOGLE_API_KEY : {Unset, "env_google"}]

NoEnv == [OPENAI_API_KEY |-> Unset, OPENAI_BASE_URL |-> Unset,
          ANTHROPIC_API_KEY |-> Unset, GOOGLE_API_KEY |-> Unset]

NoOp == [op |-> "none", file |-> [state |-> "absent", tree |-> EmptyDict],
         env |-> NoEnv, key |-> <<>>, arg |-> EmptyDict, result |-> EmptyDict,
         raised |-> ""]

SetValues == {Leaf("new"), EmptyDict}
GetDefaults == {Leaf("None"), Leaf("dflt")}

nonCfg == <<filterVars, cliVars, batchVars, partVars>>

CfgIdle ==
    /\ cfgpc = "idle"
    /\ config = EmptyDict
    /\ cfgPrev = EmptyDict
    /\ cfgLast = NoOp
    /\ cfgSets = 0

CfgInit ==
    /\ cfgpc = "new"
    /\ config = EmptyDict
    /\ cfgPrev = EmptyDict
    /\ cfgLast = NoOp
    /\ cfgSets = 0

\* config = Config()
CfgConstruct ==
    /\ cfgpc = "new"
    /\ \E file \in ConfigFiles, env \in Envs :
         LET r == ConfigNew(file, env)
         IN  /\ config' = r.config
             /\ cfgpc' = IF r.raised = "" THEN "ready" ELSE "failed"
             /\ cfgLast' = [NoOp EXCEPT !.op = "init", !.file = file, !.env = env,
                                        !.raised = r.raised]
    /\ cfgPrev' = config
    /\ UNCHANGED cfgSets
    /\ UNCHANGED nonCfg

\* config.get(key, default).  A get leaves the object as it was, so every
\* call made after a get is the same step as that call made instead of the
\* get: the calls are taken from the states a construction or a set left.
CfgGet ==
    /\ cfgpc = "ready"
    /\ cfgLast.op # "get"
    /\ \E keys \in Keys, default \in GetDefaults :
         LET r == ConfigGet(config, keys, default)
         IN  cfgLast' = [NoOp EXCEPT !.op = "get", !.key = keys, !.arg = default,
                                     !.result = r.value, !.raised = r.raised]
    /\ cfgPrev' = config
    /\ UNCHANGED <<cfgpc, config, cfgSets>>
    /\ UNCHANGED nonCfg

\* config.set(key, value)
CfgSet ==
    /\ cfgpc = "ready"
    /\ cfgLast.op # "get"
    /\ cfgSets < MaxSets
    /\ \E keys \in Keys, value \in SetValues :
         LET r == ConfigSet(config, keys, value)
         IN  /\ config' = r.config
             /\ cfgLast' = [NoOp EXCEPT !.op = "set", !.key = keys, !.arg = value,
                                        !.raised = r.raised]
    /\ cfgPrev' = config
    /\ cfgSets' = cfgSets + 1
    /\ UNCHANGED cfgpc
    /\ UNCHANGED nonCfg

CfgNext == CfgConstruct \/ CfgGet \/ CfgSet

(***************************************************************************)
(* Specification SpecQuote: one Quote is built from constructor arguments  *)
(* and serialised with to_dict, or a dictionary read from a quotes file    *)
(* (cli.py generate) is turned into a Quote with from_dict.                *)
(***************************************************************************)
QuoteKeys == {"text", "context", "category", "score", "timestamp"}

\* timestamp values: None, the empty dictionary, a non-empty dictionary
Timestamps == {"None", "{}", "ts"}

QuoteArgs ==
    [text : Texts, context : {"", "ctx"}, category : {"", "c1"},
     score : 0 .. 1, timestamp : Timestamps]

\* a key of a dictionary: absent, or present with a value
KeyOptions(values) ==
    {[has |-> FALSE, v |-> CHOOSE x \in values : TRUE]}
        \cup {[has |-> TRUE, v |-> x] : x \in values}

DictOf(text, context, category, score, timestamp) ==
    LET opt(k) == CASE k = "text" -> text
                    [] k = "context" -> context
                    [] k = "category" -> category
                    [] k = "score" -> score
                    [] k = "timestamp" -> timestamp
    IN  [k \in {x \in QuoteKeys : opt(x).has} |-> opt(k).v]

QuoteDicts ==
    {DictOf(t, c, g, s, ts) :
        t \in KeyOptions({"a"}), c \in KeyOptions({"ctx"}),
        g \in KeyOptions({"c1"}), s \in KeyOptions({1}),
        ts \in KeyOptions(Timestamps)}

NoQuote == [class |-> "none"]
NoDict == [none |-> TRUE]
NoArgs == [text |-> "", context |-> "", category |-> "", score |-> 0,
           timestamp |-> "None"]

QuoteIdle ==
    /\ qpc = "idle"
    /\ qArgs = NoArgs
    /\ qObj = NoQuote
    /\ qDict = NoDict
    /\ qBack = NoQuote

QuoteInit ==
    /\ qObj = NoQuote
    /\ qBack = NoQuote
    /\ \/ qpc = "args" /\ qArgs \in QuoteArgs /\ qDict = NoDict
       \/ qpc = "dict" /\ qArgs = NoArgs /\ qDict \in QuoteDicts

nonQuote == <<filterVars, cliVars, batchVars, cfgVars, trVars, exVars, wrapVars, drawVars>>

QuoteNew ==
    /\ qpc = "args"
    /\ qObj' = Quote(qArgs.text, qArgs.context, qArgs.category, qArgs.score,
                     qArgs.timestamp)
    /\ qpc' = "object"
    /\ UNCHANGED <<qArgs, qDict, qBack>>
    /\ UNCHANGED nonQuote

QuoteToDict ==
    /\ qpc = "object"
    /\ qDict' = to_dict(qObj)
    /\ qpc' = "dict"
    /\ UNCHANGED <<qArgs, qObj, qBack>>
    /\ UNCHANGED nonQuote

QuoteFromDict ==
    /\ qpc = "dict"
    /\ qBack' = from_dict(qDict)
    /\ qpc' = "back"
    /\ UNCHANGED <<qArgs, qObj, qDict>>
    /\ UNCHANGED nonQuote

QuoteNext == QuoteNew \/ QuoteToDict \/ QuoteFromDict

(***************************************************************************)
(* Specification SpecTranscriber: AudioTranscriber.transcribe called on    *)
(* one transcriber object, statement by statement, up to MaxCalls times    *)
(* (the whisper model stays loaded between the calls).  A path is a stem   *)
(* and a suffix; the file system maps each path to "absent", "old" (there  *)
(* before the first call) or "new" (written by a call).                    *)
(***************************************************************************)
Path(stem, suffix) == [stem |-> stem, suffix |-> suffix]

\* a with_suffix that leaves the path as it is
KeepSuffix(p, suffix) == p

\* pathlib's with_suffix: the last suffix is replaced
with_suffix(p, suffix) == [p EXCEPT !.suffix = suffix]

Suffixes == {"", ".txt", ".json", ".md"}
OutPaths == {Path("out", s) : s \in Suffixes}

\* output_path: None, the empty string, or a path
OutputArgs == {[kind |-> "None", path |-> Path("", "")],
               [kind |-> "empty", path |-> Path("", "")]}
                  \cup {[kind |-> "path", path |-> p] : p \in OutPaths}

\* `if output_path:`
OutputTruthy(o) == o.kind = "path"

\* the two entry points: transcribe itself and get_full_text, which passes
\* output_path=None
TranscribeCalls ==
    {c \in [via : {"transcribe", "get_full_text"}, audio_exists : BOOLEAN,
            output_path : OutputArgs, whisper : WhisperOutcomes] :
        c.via = "get_full_text" => c.output_path.kind = "None"}

NoCall == [via |-> "none", audio_exists |-> TRUE,
           output_path |-> [kind |-> "None", path |-> Path("", "")],
           whisper |-> "ok"]

NoFiles == [p \in OutPaths |-> "absent"]

TrIdle ==
    /\ tpc = "idle"
    /\ tIn = NoCall
    /\ trModel = "None"
    /\ trFiles = NoFiles
    /\ trAtCall = [model |-> "None", files |-> NoFiles]
    /\ trLog = <<>>
    /\ trRaised = ""
    /\ trCalls = 0

\* AudioTranscriber.__init__ has run: model is None
TrInit ==
    /\ tpc = "call"
    /\ tIn \in TranscribeCalls
    /\ trModel = "None"
    /\ trFiles \in {NoFiles, [p \in OutPaths |-> "old"]}
    /\ trAtCall = [model |-> trModel, files |-> trFiles]
    /\ trLog = <<>>
    /\ trRaised = ""
    /\ trCalls = 1

nonTr == <<filterVars, cliVars, batchVars, cfgVars, quoteVars, exVars, wrapVars, drawVars>>

TrRaise(e) ==
    /\ trRaised' = e
    /\ tpc' = "raised"

\* an existence check that comes after the model has been loaded
TrAudioMissingAfterLoad ==
    /\ tpc = "call"
    /\ ~tIn.audio_exists
    /\ trModel' = "loaded"
    /\ trLog' = Append(trLog, "load_model")
    /\ TrRaise("FileNotFoundError")
    /\ UNCHANGED <<tIn, trFiles, trAtCall, trCalls>>
    /\ UNCHANGED nonTr

\* lines 63-66: the audio file does not exist
TrAudioMissing ==
    /\ tpc = "call"
    /\ ~tIn.audio_exists
    /\ TrRaise("FileNotFoundError")
    /\ UNCHANGED <<tIn, trModel, trFiles, trAtCall, trLog, trCalls>>
    /\ UNCHANGED nonTr

TrAudioExists ==
    /\ tpc = "call"
    /\ tIn.audio_exists
    /\ tpc' = "load"
    /\ UNCHANGED <<tIn, trModel, trFiles, trAtCall, trLog, trRaised, trCalls>>
    /\ UNCHANGED nonTr

\* _load_model: whisper.load_model is called only while self.model is None
TrLoadModel ==
    /\ tpc = "load"
    /\ trModel = "None"
    /\ tIn.whisper # "load_error"
    /\ trLog' = Append(trLog, "load_model")
    /\ trModel' = "loaded"
    /\ tpc' = "invoke"
    /\ UNCHANGED <<tIn, trFiles, trAtCall, trRaised, trCalls>>
    /\ UNCHANGED nonTr

TrLoadModelRaises ==
    /\ tpc = "load"
    /\ trModel = "None"
    /\ tIn.whisper = "load_error"
    /\ trLog' = Append(trLog, "load_model")
    /\ TrRaise("LoadError")
    /\ UNCHANGED <<tIn, trModel, trFiles, trAtCall, trCalls>>
    /\ UNCHANGED nonTr

TrModelLoaded ==
    /\ tpc = "load"
    /\ trModel # "None"
    /\ tpc' = "invoke"
    /\ UNCHANGED <<tIn, trModel, trFiles, trAtCall, trLog, trRaised, trCalls>>
    /\ UNCHANGED nonTr

\* lines 75-82: self.model.transcribe returns; `if output_path:`
TrModelTranscribe ==
    /\ tpc = "invoke"
    /\ tIn.whisper # "transcribe_error"
    /\ trLog' = Append(trLog, "model.transcribe")
    /\ tpc' = IF OutputTruthy(tIn.output_path) THEN "save_txt" ELSE "returned"
    /\ UNCHANGED <<tIn, trModel, trFiles, trAtCall, trRaised, trCalls>>
    /\ UNCHANGED nonTr

TrModelTranscribeRaises ==
    /\ tpc = "invoke"
    /\ tIn.whisper = "transcribe_error"
    /\ trLog' = Append(trLog, "model.transcribe")
    /\ TrRaise("TranscribeError")
    /\ UNCHANGED <<tIn, trModel, trFiles, trAtCall, trCalls>>
    /\ UNCHANGED nonTr

\* lines 87-89
TrWriteText ==
    /\ tpc = "save_txt"
    /\ LET text_path == with_suffix(tIn.output_path.path, ".txt")
       IN  /\ trFiles' = [trFiles EXCEPT ![text_path] = "new"]
           /\ trLog' = Append(trLog, "write")
    /\ tpc' = "save_json"
    /\ UNCHANGED <<tIn, trModel, trAtCall, trRaised, trCalls>>
    /\ UNCHANGED nonTr

\* lines 93-100
TrWriteJson ==
    /\ tpc = "save_json"
    /\ LET json_path == with_suffix(tIn.output_path.path, ".json")
       IN  /\ trFiles' = [trFiles EXCEPT ![json_path] = "new"]
           /\ trLog' = Append(trLog, "write")
    /\ tpc' = "returned"
    /\ UNCHANGED <<tIn, trModel, trAtCall, trRaised, trCalls>>
    /\ UNCHANGED nonTr

\* the next call on the same transcriber
TrCallAgain ==
    /\ tpc \in {"returned", "raised"}
    /\ trCalls < MaxCalls
    /\ tIn' \in TranscribeCalls
    /\ trAtCall' = [model |-> trModel, files |-> trFiles]
    /\ trLog' = <<>>
    /\ trRaised' = ""
    /\ trCalls' = trCalls + 1
    /\ tpc' = "call"
    /\ UNCHANGED <<trModel, trFiles>>
    /\ UNCHANGED nonTr

TrNext ==
    \/ TrAudioMissing \/ TrAudioExists
    \/ TrLoadModel \/ TrLoadModelRaises \/ TrModelLoaded
    \/ TrModelTranscribe \/ TrModelTranscribeRaises
    \/ TrWriteText \/ TrWriteJson
    \/ TrCallAgain

(***************************************************************************)
(* Specification SpecExtractor: QuoteExtractor.extract_from_file called on *)
(* its own, statement by statement.  The response of the endpoint may also *)
(* be valid JSON that is not an object ("json_array").                     *)
(***************************************************************************)
ExtractorLLM == LLMOutcomes \cup {[kind |-> "json_array", items |-> <<>>]}

\* output_path: None, the empty string, or the path of the quotes file
ExtractOutputs == {"None", "", "quotes.json"}

ExtractCalls ==
    [input_exists : BOOLEAN, output_path : ExtractOutputs, llm : ExtractorLLM]

NoExtract == [input_exists |-> TRUE, output_path |-> "None",
              llm |-> [kind |-> "api_error", items |-> <<>>]]

ExIdle ==
    /\ epc = "idle"
    /\ eIn = NoExtract
    /\ eFile = NoFile
    /\ eAtCall = NoFile
    /\ eLog = <<>>
    /\ eRaised = ""
    /\ eQuotes = <<>>

ExInit ==
    /\ epc = "call"
    /\ eIn \in ExtractCalls
    /\ eFile \in {NoFile, OldQuotesFile}
    /\ eAtCall = eFile
    /\ eLog = <<>>
    /\ eRaised = ""
    /\ eQuotes = <<>>

nonEx == <<filterVars, cliVars, batchVars, cfgVars, quoteVars, trVars, wrapVars, drawVars>>

ExRaise(e) ==
    /\ eRaised' = e
    /\ epc' = "raised"

\* lines 194-197
ExInputMissing ==
    /\ epc = "call"
    /\ ~eIn.input_exists
    /\ ExRaise("FileNotFoundError")
    /\ UNCHANGED <<eIn, eFile, eAtCall, eLog, eQuotes>>
    /\ UNCHANGED nonEx

\* lines 200-201
ExReadInput ==
    /\ epc = "call"
    /\ eIn.input_exists
    /\ eLog' = Append(eLog, "read_input")
    /\ epc' = "llm"
    /\ UNCHANGED <<eIn, eFile, eAtCall, eRaised, eQuotes>>
    /\ UNCHANGED nonEx

\* extract, lines 102-125: the chat completion request
ExLlmCall ==
    /\ epc = "llm"
    /\ eIn.llm.kind # "api_error"
    /\ eLog' = Append(eLog, "llm_call")
    /\ epc' = "parse"
    /\ UNCHANGED <<eIn, eFile, eAtCall, eRaised, eQuotes>>
    /\ UNCHANGED nonEx

ExLlmCallRaises ==
    /\ epc = "llm"
    /\ eIn.llm.kind = "api_error"
    /\ eLog' = Append(eLog, "llm_call")
    /\ ExRaise(extract(eIn.llm).raised)
    /\ UNCHANGED <<eIn, eFile, eAtCall, eQuotes>>
    /\ UNCHANGED nonEx

\* extract, lines 127-140, and `if output_path:` of extract_from_file
ExParse ==
    /\ epc = "parse"
    /\ extract(eIn.llm).raised = ""
    /\ eQuotes' = extract(eIn.llm).quotes
    /\ eLog' = Append(eLog, "json_parsed")
    /\ epc' = IF StrTruthy(eIn.output_path) THEN "save" ELSE "returned"
    /\ UNCHANGED <<eIn, eFile, eAtCall, eRaised>>
    /\ UNCHANGED nonEx

ExParseRaises ==
    /\ epc = "parse"
    /\ extract(eIn.llm).raised # ""
    /\ ExRaise(extract(eIn.llm).raised)
    /\ UNCHANGED <<eIn, eFile, eAtCall, eLog, eQuotes>>
    /\ UNCHANGED nonEx

\* lines 208-217
ExWrite ==
    /\ epc = "save"
    /\ eFile' = [state |-> "ok", data |-> MapSeq(eQuotes, to_dict)]
    /\ eLog' = Append(eLog, "write")
    /\ epc' = "returned"
    /\ UNCHANGED <<eIn, eAtCall, eRaised, eQuotes>>
    /\ UNCHANGED nonEx

ExNext ==
    \/ ExInputMissing \/ ExReadInput
    \/ ExLlmCall \/ ExLlmCallRaises
    \/ ExParse \/ ExParseRaises
    \/ ExWrite

(***************************************************************************)
(* CardGenerator._wrap_text.  A text is a sequence of characters: "zh" is  *)
(* a character of U+4E00..U+9FFF, "a" and "w" are Latin letters, " " is    *)
(* white space.  A font gives each character its advance width; the width  *)
(* font.getbbox measures for a line is the sum over its characters.        *)
(***************************************************************************)
Chars == {"zh", "a", "w", " "}

IsCJK(c) == c = "zh"
IsSpace(c) == c = " "

\* any('一' <= char <= '鿿' for char in text)
HasCJK(text) == \E i \in 1 .. Len(text) : IsCJK(text[i])

Fonts ==
    {[name |-> "narrow", adv |-> [c \in Chars |-> IF c = "zh" THEN 2 ELSE 1]],
     [name |-> "wide",
      adv |-> [c \in Chars |-> CASE c = "zh" -> 3 [] c = "w" -> 3
                                 [] c = "a" -> 2 [] OTHER -> 1]]}

RECURSIVE TextWidth(_, _)
TextWidth(font, line) ==
    IF line = <<>> THEN 0
    ELSE font.adv[Head(line)] + TextWidth(font, Tail(line))

\* str.split(): the maximal runs of characters that are not white space
RECURSIVE SplitFrom(_, _, _, _)
SplitFrom(text, i, word, words) ==
    LET closed == IF word = <<>> THEN words ELSE Append(words, word)
    IN  IF i > Len(text) THEN closed
        ELSE IF IsSpace(text[i]) THEN SplitFrom(text, i + 1, <<>>, closed)
        ELSE SplitFrom(text, i + 1, Append(word, text[i]), words)

Split(text) == SplitFrom(text, 1, <<>>, <<>>)

\* the units of the loop: the characters, or the words
UnitsOf(text) ==
    IF HasCJK(text) THEN [i \in 1 .. Len(text) |-> <<text[i]>>]
    ELSE Split(text)

\* what separates two units of a line: nothing, or one space
Separator(text) == IF HasCJK(text) THEN <<>> ELSE <<" ">>

\* a test that closes the line already at width = max_width
FitsStrict(width, max_width) == width < max_width

\* `if width <= max_width:`
Fits(width, max_width) == width <= max_width

\* a test line without the separator
TestLineNoSeparator(current_line, unit, sep) == current_line \o unit

\* test_line = current_line + char
\* test_line = current_line + " " + word if current_line else word
TestLine(current_line, unit, sep) ==
    IF current_line # <<>> THEN current_line \o sep \o unit ELSE unit

\* The loop, taken one returned line at a time.  A line starts with the
\* unit that did not fit the line before it (or with the first unit): the
\* code puts that unit into current_line whether or not it fits.  FillLine
\* is the run of iterations that extend current_line: from unit i on, units
\* are added while the test line fits; it gives the finished line and the
\* index of the unit that starts the next line.
RECURSIVE FillLine(_, _, _, _, _, _)
FillLine(units, i, current_line, sep, font, max_width) ==
    IF i > Len(units) THEN [line |-> current_line, next |-> i]
    ELSE IF Fits(TextWidth(font, TestLine(current_line, units[i], sep)),
                 max_width)
    THEN FillLine(units, i + 1, TestLine(current_line, units[i], sep), sep,
                  font, max_width)
    ELSE [line |-> current_line, next |-> i]

\* lines.append(current_line) for the line that starts at unit i, then the
\* lines that follow it
RECURSIVE WrapLoop(_, _, _, _, _)
WrapLoop(units, i, sep, font, max_width) ==
    IF i > Len(units) THEN <<>>
    ELSE LET filled == FillLine(units, i + 1, units[i], sep, font, max_width)
         IN  <<filled.line>>
                 \o WrapLoop(units, filled.next, sep, font, max_width)

wrap_text(text, font, max_width) ==
    WrapLoop(UnitsOf(text), 1, Separator(text), font, max_width)

(***************************************************************************)
(* Specification SpecWrap: _wrap_text applied to every text of up to       *)
(* MaxText characters, each font and each max_width up to MaxWidth.        *)
(***************************************************************************)
WrapTexts == SeqsUpTo(Chars, MaxText)

WrapIdle ==
    /\ wpc = "idle"
    /\ wText = <<>>
    /\ wFont = CHOOSE f \in Fonts : f.name = "narrow"
    /\ wMaxWidth = 0
    /\ wLines = <<>>

WrapInit ==
    /\ wpc = "call"
    /\ wText \in WrapTexts
    /\ wFont \in Fonts
    /\ wMaxWidth \in 0 .. MaxWidth
    /\ wLines = <<>>

nonWrap == <<filterVars, cliVars, batchVars, cfgVars, quoteVars, trVars, exVars, drawVars>>

WrapCall ==
    /\ wpc = "call"
    /\ wLines' = wrap_text(wText, wFont, wMaxWidth)
    /\ wpc' = "returned"
    /\ UNCHANGED <<wText, wFont, wMaxWidth>>
    /\ UNCHANGED nonWrap

WrapNext == WrapCall

(***************************************************************************)
(* The three templates of CardGenerator.  Coordinates are kept in tenths   *)
(* of a pixel, because the line step is font.size * 1.5 or * 1.6.  What    *)
(* _load_font returns depends on the machine: a TrueType font of the       *)
(* requested size, Pillow's scalable default font (size 10), or Pillow's   *)
(* bitmap default font, which has no `size` attribute.                     *)
(***************************************************************************)
FontEnvs == {"truetype", "default", "bitmap"}

\* a CJK character is as wide as the font is high, the others half of it
load_font(env, size) ==
    LET sz == IF env = "truetype" THEN size ELSE 10
    IN  [name |-> env, size |-> sz,
         adv |-> [c \in Chars |-> IF IsCJK(c) THEN sz ELSE sz \div 2]]

\* CardGenerator.__init__
CardGeneratorNew(width, height, padding, font_size, env) ==
    [width |-> width, height |-> height, padding |-> padding,
     font |-> load_font(env, font_size)]

\* the loop `for line in lines: draw.text(...); text_y += font.size * f`:
\* the y of each line drawn; text_y and the result are in tenths, step10 is
\* ten times the factor.  Reading font.size of the bitmap font raises after
\* the first line has been drawn.
RECURSIVE LineYs(_, _, _)
LineYs(n, text_y10, step) ==
    IF n = 0 THEN <<>>
    ELSE Append(LineYs(n - 1, text_y10, step), text_y10 + (n - 1) * step)

DrawLines(font, lines, text_y, step10) ==
    IF font.name = "bitmap" /\ lines # <<>>
    THEN [raised |-> "AttributeError", line_ys |-> <<10 * text_y>>]
    ELSE [raised |-> "",
          line_ys |-> LineYs(Len(lines), 10 * text_y, font.size * step10)]

\* what a template drew: the lines and their y, and the subtitle's y when
\* one was drawn
Drawn(template, lines, d, subtitle, subtitle_y, step10) ==
    [template |-> template, raised |-> d.raised, lines |-> lines,
     line_ys |-> d.line_ys, step |-> step10,
     has_subtitle |-> d.raised = "" /\ StrTruthy(subtitle),
     subtitle_y |-> 10 * subtitle_y]

draw_minimal_card(g, quote_text, subtitle) ==
    LET title_y == g.padding
        quote_y == title_y + 120
        text_y == quote_y + 100
        max_width == g.width - 2 * g.padding
        lines == wrap_text(quote_text, g.font, max_width)
    IN  Drawn("minimal", lines, DrawLines(g.font, lines, text_y, 15),
              subtitle, g.height - g.padding - 60, 15)

draw_elegant_card(g, quote_text, subtitle) ==
    LET title_y == g.padding + 40
        line_y == title_y + 80
        text_y == line_y + 100
        max_width == g.width - 2 * g.padding - 40
        lines == wrap_text(quote_text, g.font, max_width)
    IN  Drawn("elegant", lines, DrawLines(g.font, lines, text_y, 16),
              subtitle, g.height - g.padding - 80, 16)

draw_modern_card(g, quote_text, subtitle) ==
    LET box_left == g.padding + 20
        box_top == g.padding + 100
        box_right == g.width - g.padding
        box_bottom == g.height - g.padding - 100
        text_y == box_top + 80
        max_width == box_right - box_left - 40
        lines == wrap_text(quote_text, g.font, max_width)
    IN  Drawn("modern", lines, DrawLines(g.font, lines, text_y, 15),
              subtitle, box_bottom - 60, 15)

\* generate(): the template is chosen by the style
draw_card(g, quote_text, subtitle, style) ==
    CASE TemplateOf(style) = "minimal" -> draw_minimal_card(g, quote_text, subtitle)
      [] TemplateOf(style) = "elegant" -> draw_elegant_card(g, quote_text, subtitle)
      [] TemplateOf(style) = "modern" -> draw_modern_card(g, quote_text, subtitle)

(***************************************************************************)
(* Specification SpecDraw: one card is drawn, for the default generator    *)
(* (1080 x 1920, padding 100, font size 48) with each font the machine may *)
(* give and for a small canvas, each style, and quotes of up to            *)
(* MaxQuoteChars CJK characters.                                           *)
(***************************************************************************)
Generators ==
    {CardGeneratorNew(1080, 1920, 100, 48, env) : env \in FontEnvs}
        \cup {CardGeneratorNew(600, 800, 40, 32, "truetype")}

\* the short quotes, and of the longer ones every twenty-fifth length
DrawTexts ==
    {[i \in 1 .. n |-> "zh"] :
        n \in {m \in 0 .. MaxQuoteChars : m <= 20 \/ m % 25 = 0}}
DrawStyles == {"minimal", "elegant", "modern", "fancy"}
DrawSubtitles == {"", "c1"}

NoCard == [template |-> "none", raised |-> "", lines |-> <<>>,
           line_ys |-> <<>>, step |-> 0, has_subtitle |-> FALSE,
           subtitle_y |-> 0]

DrawIdle ==
    /\ dpc = "idle"
    /\ dGen = CardGeneratorNew(1080, 1920, 100, 48, "truetype")
    /\ dCall = [quote_text |-> <<>>, subtitle |-> "", style |-> "minimal"]
    /\ dCard = NoCard

DrawInit ==
    /\ dpc = "call"
    /\ dGen \in Generators
    /\ dCall \in [quote_text : DrawTexts, subtitle : DrawSubtitles,
                  style : DrawStyles]
    /\ dCard = NoCard

nonDraw == <<filterVars, cliVars, batchVars, cfgVars, quoteVars, trVars,
             exVars, wrapVars>>

DrawCall ==
    /\ dpc = "call"
    /\ dCard' = draw_card(dGen, dCall.quote_text, dCall.subtitle, dCall.style)
    /\ dpc' = "drawn"
    /\ UNCHANGED <<dGen, dCall>>
    /\ UNCHANGED nonDraw

DrawNext == DrawCall

(***************************************************************************)
(* C5.  What filter_quotes returns, stated from the list the caller passed *)
(* (fBefore) without the operators above.                                  *)
(***************************************************************************)
Matches(q, args) ==
    /\ (args.min_score > 0 => q.score >= args.min_score)
    /\ (StrTruthy(args.category) => q.category = args.category)

MatchingIds(quotes, args) ==
    {i \in 1 .. Len(quotes) : Matches(quotes[i], args)}

ExpectedLen(nMatching, max_count) ==
    IF ~max_count.given \/ max_count.n = 0 THEN nMatching
    ELSE IF max_count.n > 0 THEN Min(max_count.n, nMatching)
    ELSE Max(nMatching + max_count.n, 0)

PartsIdle == QuoteIdle /\ TrIdle /\ ExIdle /\ WrapIdle /\ DrawIdle

InitFilter == FilterInit /\ CliIdle /\ BatchIdle /\ CfgIdle /\ PartsIdle
SpecFilter == InitFilter /\ [][FilterNext]_vars

InitCli == CliInit /\ FilterIdle /\ BatchIdle /\ CfgIdle /\ PartsIdle
SpecCli == InitCli /\ [][CliNext]_vars

InitBatch == BatchInit /\ FilterIdle /\ CliIdle /\ CfgIdle /\ PartsIdle
SpecBatch == InitBatch /\ [][BatchNext]_vars

InitConfig == CfgInit /\ FilterIdle /\ CliIdle /\ BatchIdle /\ PartsIdle
SpecConfig == InitConfig /\ [][CfgNext]_vars

CoreIdle == FilterIdle /\ CliIdle /\ BatchIdle /\ CfgIdle

InitQuote == QuoteInit /\ CoreIdle /\ TrIdle /\ ExIdle /\ WrapIdle /\ DrawIdle
SpecQuote == InitQuote /\ [][QuoteNext]_vars

InitTranscriber == TrInit /\ CoreIdle /\ QuoteIdle /\ ExIdle /\ WrapIdle /\ DrawIdle
SpecTranscriber == InitTranscriber /\ [][TrNext]_vars

InitExtractor == ExInit /\ CoreIdle /\ QuoteIdle /\ TrIdle /\ WrapIdle /\ DrawIdle
SpecExtractor == InitExtractor /\ [][ExNext]_vars

InitWrap == WrapInit /\ CoreIdle /\ QuoteIdle /\ TrIdle /\ ExIdle /\ DrawIdle
SpecWrap == InitWrap /\ [][WrapNext]_vars

InitDraw == DrawInit /\ CoreIdle /\ QuoteIdle /\ TrIdle /\ ExIdle /\ WrapIdle
SpecDraw == InitDraw /\ [][DrawNext]_vars

(***************************************************************************)
(* Claims about the CLI commands (SpecCli).                                *)
(***************************************************************************)
Range(s) == {s[i] : i \in 1 .. Len(s)}
StageOrder == <<"transcribe", "extract", "render">>
FailureMsgs == {"transcribe_failed", "extract_failed", "generate_failed",
                "render_failed"}

\* C1: in `pipeline` the stages start in the order transcription, extraction,
\* rendering, each at most once; extraction starts only after transcription
\* returned without an exception, rendering only after extraction did.
C1_PipelineStageOrder ==
    cmd = "pipeline" =>
        /\ \E n \in 0 .. 3 : started = SubSeq(StageOrder, 1, n)
        /\ ("extract" \in Range(started) => "transcribe" \in Range(returned))
        /\ ("render" \in Range(started) => "extract" \in Range(returned))

C1_Witness ==
    /\ cmd = "pipeline"
    /\ pc = "done"
    /\ started = StageOrder
    /\ returned = StageOrder
    /\ outcome = "exit0"

\* C2 as claimed: after a successful `pipeline` run the cards card_001.png ..
\* card_N.png correspond one-to-one, in order, to the N records of quotes.json.
C2_CardsMatchQuotesFile ==
    (cmd = "pipeline" /\ pc = "done" /\ outcome = "exit0") =>
        /\ Len(cards) = Len(quotesFile.data)
        /\ \A i \in 1 .. Len(cards) :
              /\ cards[i].path = CardPath(i)
              /\ cards[i].text = quotesFile.data[i].text
              /\ cards[i].subtitle = quotesFile.data[i].category

\* the records of quotes.json a run with --min-score m renders
KeptRecords(data, m) ==
    {i \in 1 .. Len(data) : m > 0 => data[i].score >= m}

\* the card number of kept record i: one more than the number of kept records
\* that come before it by higher score, or by equal score and earlier place
CardNumber(data, kept, i) ==
    1 + Cardinality({k \in kept :
                        \/ data[k].score > data[i].score
                        \/ (data[k].score = data[i].score /\ k < i)})

\* C2 as amended: after a successful `pipeline` run the cards correspond
\* one-to-one to the records of quotes.json whose score is >= min_score (all
\* records when min_score <= 0), numbered by non-increasing score, records of
\* equal score in their quotes.json order.
C2_CardsMatchFilteredQuotes ==
    (cmd = "pipeline" /\ pc = "done" /\ outcome = "exit0") =>
        LET data == quotesFile.data
            kept == KeptRecords(data, opts.min_score)
        IN  /\ Len(cards) = Cardinality(kept)
            /\ \A j \in 1 .. Len(cards) : cards[j].path = CardPath(j)
            /\ \A i \in kept :
                  LET j == CardNumber(data, kept, i)
                  IN  /\ cards[j].text = data[i].text
                      /\ cards[j].subtitle = data[i].category

C2_Witness ==
    /\ cmd = "pipeline" /\ pc = "done" /\ outcome = "exit0"
    /\ Len(quotesFile.data) = 2
    /\ Len(cards) = 2
    /\ quotesFile.data[1].score < quotesFile.data[2].score
    /\ quotesFile.data[1].text # quotesFile.data[2].text
    /\ cards[1].text = quotesFile.data[2].text

\* C3 as claimed: every exception raised while a command does its work is
\* caught by the command's try/except, reported as a failure message and
\* turned into exit status 1; none escapes uncaught.
C3_EveryExceptionCaught ==
    (pc = "done" /\ exc # "") =>
        /\ outcome = "exit1"
        /\ console # <<>>
        /\ console[Len(console)] \in FailureMsgs

\* C3 as amended: an exception raised by the stage call inside a command's
\* try block is caught, reported as a failure message and turned into exit
\* status 1; an exception raised before the try block (constructing a stage
\* object, creating the output directory, and in `generate` reading the quotes
\* file) escapes uncaught, with no failure message.
C3_StageExceptionsCaught ==
    pc = "done" =>
        /\ exc = "stage" =>
              /\ outcome = "exit1"
              /\ console # <<>>
              /\ console[Len(console)] \in FailureMsgs
        /\ exc \in {"ctor", "mkdir", "read_input"} =>
              /\ outcome = "uncaught"
              /\ Range(console) \cap FailureMsgs = {}
        /\ outcome = "uncaught" => exc \in {"ctor", "mkdir", "read_input"}
        /\ exc = "" => outcome = "exit0"

C3_Witness ==
    /\ cmd = "generate"
    /\ pc = "done"
    /\ exc = "stage"
    /\ outcome = "exit1"
    /\ Len(cards) >= 1
    /\ console = <<"generate_failed">>

\* C4: in `pipeline`, when extraction succeeds but no extracted quote has
\* score >= min_score, the command prints the no-quotes warning and ends with
\* exit status 0, without the extraction-failed message and without starting
\* the rendering stage.
C4_NoQuotesExitsZero ==
    (/\ cmd = "pipeline"
     /\ pc = "done"
     /\ "extract" \in Range(returned)
     /\ \A i \in 1 .. Len(quotesFile.data) :
            quotesFile.data[i].score < opts.min_score) =>
        /\ outcome = "exit0"
        /\ "no_quotes_warning" \in Range(console)
        /\ "extract_failed" \notin Range(console)
        /\ "render" \notin Range(started)

(***************************************************************************)
(* Claims about generate_batch and generate (SpecBatch).                   *)
(***************************************************************************)
RECURSIVE DecimalValue(_)
DecimalValue(ds) ==
    IF ds = <<>> THEN 0
    ELSE 10 * DecimalValue(SubSeq(ds, 1, Len(ds) - 1)) + ds[Len(ds)]

\* name is card_<i in decimal, zero-padded to at least 3 digits>.png
IsCardName(name, i) ==
    /\ Len(name) >= 5
    /\ name[1] = "card_"
    /\ name[Len(name)] = ".png"
    /\ LET ds == SubSeq(name, 2, Len(name) - 1)
       IN  /\ \A k \in 1 .. Len(ds) : ds[k] \in 0 .. 9
           /\ DecimalValue(ds) = i
           /\ Len(ds) > 3 => ds[1] # 0

\* C6: generate_batch renders one card per input quote, in input order; the
\* returned list has the input's length, its i-th element is
\* output_dir/card_<i zero-padded to 3 digits>.png, the paths are pairwise
\* distinct for every length (also beyond 999), and an empty input returns an
\* empty list with output_dir created.
C6_BatchOneCardPerQuote ==
    bpc = "returned" =>
        /\ bDir
        /\ Len(bPaths) = Len(bQuotes)
        /\ Len(bFiles) = Len(bQuotes)
        /\ \A i \in 1 .. Len(bPaths) :
              /\ bPaths[i].dir = "output_dir"
              /\ IsCardName(bPaths[i].name, i)
              /\ bFiles[i].path = bPaths[i]
              /\ bQuotes[i].class = "Quote" =>
                    /\ bFiles[i].text = bQuotes[i].text
                    /\ bFiles[i].subtitle = bQuotes[i].category
        /\ Cardinality(Range(bPaths)) = Len(bPaths)

C6_Witness ==
    /\ bpc = "returned"
    /\ Len(bQuotes) > 999
    /\ Len(bPaths) = Len(bQuotes)
    /\ bPaths[1000].name = <<"card_", 1, 0, 0, 0, ".png">>

\* C7: generate draws each card with exactly one of the three templates:
\* 'minimal', 'elegant' and 'modern' select their own, every other style
\* string (the empty string, other spellings) falls back to minimal; each call
\* writes exactly one image, to output_path, and returns that path.
C7_StyleSelectsTemplate ==
    /\ Len(bFiles) = bIndex
    /\ Len(bPaths) = bIndex
    /\ \A k \in 1 .. Len(bFiles) :
          /\ bFiles[k].path = bPaths[k]
          /\ bFiles[k].template \in {"minimal", "elegant", "modern"}
          /\ bStyle \in {"minimal", "elegant", "modern"} =>
                bFiles[k].template = bStyle
          /\ bStyle \notin {"minimal", "elegant", "modern"} =>
                bFiles[k].template = "minimal"

C7_Witness ==
    /\ bpc = "returned"
    /\ bStyle = "MODERN"
    /\ Len(bFiles) = 2
    /\ bFiles[2].template = "minimal"

(***************************************************************************)
(* Claims about Config (SpecConfig).                                       *)
(***************************************************************************)
\* `value` is what tree t holds at path p
HoldsAt(t, p, value) ==
    /\ p \in DOMAIN t
    /\ \A r \in DOMAIN value : p \o r \in DOMAIN t /\ t[p \o r] = value[r]
    /\ \A q \in DOMAIN t :
          IsPrefix(p, q) => SubSeq(q, Len(p) + 1, Len(q)) \in DOMAIN value

\* every key of key's path is present in t and every value on the way down
\* is a dictionary
Reachable(t, key) ==
    /\ key \in DOMAIN t
    /\ \A n \in 0 .. Len(key) - 1 : t[SubSeq(key, 1, n)] = Dict

\* C8: Config.get(key, default) returns the value found by descending the
\* nested dictionaries one key component at a time; if a component is missing
\* or an intermediate value is not a dictionary it returns default; it never
\* raises and leaves the configuration unchanged.
C8_ConfigGetDescends ==
    cfgLast.op = "get" =>
        /\ cfgLast.raised = ""
        /\ config = cfgPrev
        /\ IF Reachable(config, cfgLast.key)
           THEN HoldsAt(config, cfgLast.key, cfgLast.result)
           ELSE cfgLast.result = cfgLast.arg

C8_Witness ==
    /\ cfgLast.op = "get"
    /\ cfgLast.key = <<"llm", "api_key">>
    /\ <<"llm">> \in DOMAIN config
    /\ config[<<"llm">>] # Dict
    /\ cfgLast.arg = Leaf("dflt")
    /\ cfgLast.result = Leaf("dflt")

Unrelated(q, key) == ~IsPrefix(q, key) /\ ~IsPrefix(key, q)

\* C9: after Config.set(k, v), Config.get(k) returns v, missing intermediate
\* dictionaries being created, from every reachable configuration (also when
\* a prefix of k holds a non-dictionary value); every key that is neither k,
\* a prefix of k nor below k keeps its previous value.
C9_SetThenGet ==
    cfgLast.op = "set" =>
        /\ cfgLast.raised = ""
        /\ ConfigGet(config, cfgLast.key, Leaf("<missing>")).value = cfgLast.arg
        /\ \A q \in DOMAIN cfgPrev \cup DOMAIN config :
              Unrelated(q, cfgLast.key) =>
                  /\ q \in DOMAIN cfgPrev /\ q \in DOMAIN config
                  /\ config[q] = cfgPrev[q]

\* the configuration the constructor starts from, before the environment
BaseConfig(file) == IF file.state = "absent" THEN DefaultConfig ELSE file.tree

\* C10: constructing Config succeeds for every configuration file (absent, or
\* any JSON object) and every environment; non-empty OPENAI_API_KEY /
\* OPENAI_BASE_URL override llm.api_key / llm.base_url, unset or empty ones
\* keep the file's or the default values; an absent file gives the defaults.
C10_ConstructSucceeds ==
    (cfgLast.op = "init" /\ cfgLast.file.state \in {"absent", "object"}) =>
        LET base == BaseConfig(cfgLast.file)
            env == cfgLast.env
            Overridden(var, key) ==
                IF EnvTruthy(env[var])
                THEN HoldsAt(config, <<"llm", key>>, Leaf(env[var]))
                ELSE \A q \in DOMAIN base \cup DOMAIN config :
                        IsPrefix(<<"llm", key>>, q) =>
                            /\ q \in DOMAIN base /\ q \in DOMAIN config
                            /\ config[q] = base[q]
        IN  /\ cfgLast.raised = ""
            /\ cfgpc = "ready"
            /\ Overridden("OPENAI_API_KEY", "api_key")
            /\ Overridden("OPENAI_BASE_URL", "base_url")
            /\ \A q \in DOMAIN base :
                  (Len(q) < 2 \/ q[1] # "llm") =>
                      q \in DOMAIN config /\ config[q] = base[q]

(***************************************************************************)
(* C11.  Quote serialisation.                                              *)
(***************************************************************************)
QuoteDefault(k) ==
    CASE k = "score" -> 0
      [] k = "timestamp" -> "{}"
      [] OTHER -> ""

\* C11: from_dict(q.to_dict()) has the same text, context, category, score
\* and timestamp as q; from_dict gives a key missing from the dictionary its
\* default ('' for text, context and category, 0.0 for score, {} for
\* timestamp); and the timestamp of a Quote is never None: a None or missing
\* timestamp becomes the empty dictionary.
C11_QuoteRoundTrip ==
    /\ (qpc = "back" /\ qObj # NoQuote) =>
           \A k \in QuoteKeys : qBack[k] = qObj[k]
    /\ qpc = "back" =>
           \A k \in QuoteKeys \ DOMAIN qDict : qBack[k] = QuoteDefault(k)
    /\ qObj # NoQuote =>
           /\ qObj.timestamp # "None"
           /\ (qArgs.timestamp = "None" => qObj.timestamp = "{}")
    /\ qBack # NoQuote =>
           /\ qBack.timestamp # "None"
           /\ ("timestamp" \in DOMAIN qDict /\ qDict.timestamp = "None"
                   => qBack.timestamp = "{}")

C11_Witness ==
    /\ qpc = "back"
    /\ qArgs.timestamp = "None"
    /\ qArgs.score = 1
    /\ qObj.timestamp = "{}"
    /\ qDict.timestamp = "{}"
    /\ qBack.score = 1
    /\ qBack.text = qArgs.text

(***************************************************************************)
(* C12, C13.  AudioTranscriber.transcribe.                                 *)
(***************************************************************************)
\* the positions of event e in the log of the current call
Positions(log, e) == {i \in 1 .. Len(log) : log[i] = e}

\* C12: when the audio file does not exist, transcribe raises
\* FileNotFoundError before the whisper model is loaded or invoked and
\* before any output file is created or modified, and the transcriber's
\* `model` field is what it was when the call was made.
C12_MissingAudioRaisesFirst ==
    (tpc \notin {"idle", "call"} /\ ~tIn.audio_exists) =>
        /\ tpc = "raised"
        /\ trRaised = "FileNotFoundError"
        /\ trLog = <<>>
        /\ trFiles = trAtCall.files
        /\ trModel = trAtCall.model

C12_Witness ==
    /\ tpc = "raised"
    /\ ~tIn.audio_exists
    /\ trRaised = "FileNotFoundError"
    /\ trCalls = 2
    /\ trModel = "loaded"
    /\ OutputTruthy(tIn.output_path)
    /\ trFiles[Path("out", ".txt")] = "new"

\* C13: transcribe writes files only after the model returned a result.
\* When it returns with an output_path, the .txt and the .json file of
\* output_path have been written and nothing else; when it returns with
\* output_path None (get_full_text) no file has been written; when the
\* model call raises, no file has been created or changed.
C13_OutputsAfterResult ==
    /\ \A i \in Positions(trLog, "write") :
           \E j \in Positions(trLog, "model.transcribe") : j < i
    /\ tpc \in {"save_txt", "save_json"} =>
           Positions(trLog, "model.transcribe") # {}
    /\ (tpc = "returned" /\ tIn.output_path.kind = "path") =>
           LET p == tIn.output_path.path
               written == {Path(p.stem, ".txt"), Path(p.stem, ".json")}
           IN  /\ \A f \in written : trFiles[f] = "new"
               /\ \A f \in OutPaths \ written : trFiles[f] = trAtCall.files[f]
    /\ (tpc = "returned" /\ tIn.output_path.kind = "None") =>
           /\ trFiles = trAtCall.files
           /\ Positions(trLog, "write") = {}
    /\ (tpc = "raised" /\ trRaised = "TranscribeError") =>
           /\ trFiles = trAtCall.files
           /\ Positions(trLog, "write") = {}

C13_Witness ==
    /\ tpc = "returned"
    /\ tIn.output_path = [kind |-> "path", path |-> Path("out", ".md")]
    /\ trAtCall.files = [p \in OutPaths |-> "old"]
    /\ trFiles[Path("out", ".txt")] = "new"
    /\ trFiles[Path("out", ".json")] = "new"
    /\ trFiles[Path("out", ".md")] = "old"
    /\ trLog = <<"load_model", "model.transcribe", "write", "write">>

(***************************************************************************)
(* C14.  QuoteExtractor.extract_from_file.                                 *)
(***************************************************************************)
\* C14: extract_from_file raises FileNotFoundError without calling the LLM
\* when the input file does not exist; it writes the output file only after
\* the LLM call and the JSON parsing succeeded; when the LLM call fails or
\* the response is not valid JSON the output file is as it was (an existing
\* one unchanged, none created); and when it returns having written, the
\* file holds every quote of the response, in the response's order.
C14_ExtractFromFile ==
    /\ (epc \notin {"idle", "call"} /\ ~eIn.input_exists) =>
           /\ epc = "raised"
           /\ eRaised = "FileNotFoundError"
           /\ Positions(eLog, "llm_call") = {}
           /\ eFile = eAtCall
    /\ epc = "save" \/ Positions(eLog, "write") # {} =>
           /\ eIn.llm.kind = "json"
           /\ \E i \in Positions(eLog, "llm_call") :
                  \E j \in Positions(eLog, "json_parsed") :
                      /\ i < j
                      /\ \A w \in Positions(eLog, "write") : j < w
    /\ (epc = "raised" /\ eIn.llm.kind \in {"api_error", "invalid_json"}) =>
           eFile = eAtCall
    /\ eFile # eAtCall => Positions(eLog, "write") # {}
    /\ (epc = "returned" /\ Positions(eLog, "write") # {}) =>
           /\ eFile.state = "ok"
           /\ Len(eFile.data) = Len(eIn.llm.items)
           /\ \A i \in 1 .. Len(eFile.data) :
                  /\ eFile.data[i].text = eIn.llm.items[i].text
                  /\ eFile.data[i].category = eIn.llm.items[i].category
                  /\ eFile.data[i].score = eIn.llm.items[i].score

C14_Witness ==
    /\ epc = "returned"
    /\ eAtCall = OldQuotesFile
    /\ Len(eIn.llm.items) = 2
    /\ eIn.llm.items[1].text = "b"
    /\ eIn.llm.items[1].score < eIn.llm.items[2].score
    /\ Len(eFile.data) = 2
    /\ eFile.data[1].text = "b"
    /\ eFile.data[2].text = "a"

(***************************************************************************)
(* C15, C16.  CardGenerator._wrap_text.                                    *)
(***************************************************************************)
\* the units a returned line holds: its characters in character mode, the
\* pieces between its spaces in word mode
RECURSIVE PiecesFrom(_, _, _)
PiecesFrom(line, i, piece) ==
    IF i > Len(line) THEN <<piece>>
    ELSE IF line[i] = " " THEN <<piece>> \o PiecesFrom(line, i + 1, <<>>)
    ELSE PiecesFrom(line, i + 1, Append(piece, line[i]))

LineUnits(line, charMode) ==
    IF charMode THEN [i \in 1 .. Len(line) |-> <<line[i]>>]
    ELSE PiecesFrom(line, 1, <<>>)

Extended(line, unit, charMode) ==
    IF charMode THEN line \o unit ELSE line \o <<" ">> \o unit

\* C15: the wrapping is greedy: a returned line of more than one unit is no
\* wider than max_width, a line wider than max_width is exactly one unit,
\* and each line but the last could not take the first unit of the next line
\* without exceeding max_width.
C15_GreedyWrap ==
    wpc = "returned" =>
        LET charMode == \E i \in 1 .. Len(wText) : wText[i] = "zh"
            W(line) == TextWidth(wFont, line)
        IN  /\ \A k \in 1 .. Len(wLines) :
                   /\ Len(LineUnits(wLines[k], charMode)) > 1
                          => W(wLines[k]) <= wMaxWidth
                   /\ W(wLines[k]) > wMaxWidth
                          => Len(LineUnits(wLines[k], charMode)) = 1
            /\ \A k \in 1 .. Len(wLines) - 1 :
                   W(Extended(wLines[k],
                              LineUnits(wLines[k + 1], charMode)[1],
                              charMode)) > wMaxWidth

C15_Witness ==
    /\ wpc = "returned"
    /\ wText = <<"a", " ", "w", "w", " ", "a">>
    /\ wFont.name = "wide"
    /\ wMaxWidth = 5
    /\ wLines = <<<<"a">>, <<"w", "w">>, <<"a">>>>

RECURSIVE Concat(_)
Concat(ss) == IF ss = <<>> THEN <<>> ELSE Head(ss) \o Concat(Tail(ss))

RECURSIVE SpaceJoin(_)
SpaceJoin(ss) ==
    IF ss = <<>> THEN <<>>
    ELSE IF Len(ss) = 1 THEN ss[1]
    ELSE ss[1] \o <<" ">> \o SpaceJoin(Tail(ss))

\* the words of a text, taken from the text without Split: the maximal runs
\* of characters other than the space
WordStarts(text) ==
    {i \in 1 .. Len(text) : text[i] # " " /\ (i = 1 \/ text[i - 1] = " ")}

WordAt(text, i) ==
    LET end == CHOOSE j \in i .. Len(text) :
                   /\ \A m \in i .. j : text[m] # " "
                   /\ (j = Len(text) \/ text[j + 1] = " ")
    IN  SubSeq(text, i, end)

RECURSIVE WordsIn(_, _)
WordsIn(text, starts) ==
    IF starts = {} THEN <<>>
    ELSE LET i == CHOOSE x \in starts : \A y \in starts : x <= y
         IN  <<WordAt(text, i)>> \o WordsIn(text, starts \ {i})

\* C16: _wrap_text loses and reorders nothing: in character mode the lines
\* concatenated are the text; in word mode the lines joined with single
\* spaces are the words of the text joined with single spaces; no line is
\* empty; an empty text, or in word mode one of white space only, gives no
\* line.
C16_WrapKeepsContent ==
    wpc = "returned" =>
        LET charMode == \E i \in 1 .. Len(wText) : wText[i] = "zh"
        IN  /\ charMode => Concat(wLines) = wText
            /\ ~charMode =>
                   SpaceJoin(wLines) = SpaceJoin(WordsIn(wText, WordStarts(wText)))
            /\ \A k \in 1 .. Len(wLines) : wLines[k] # <<>>
            /\ (\A i \in 1 .. Len(wText) : wText[i] = " ") => wLines = <<>>

C16_Witness ==
    /\ wpc = "returned"
    /\ wText = <<" ", "a", " ", " ", "w", "a">>
    /\ wFont.name = "narrow"
    /\ wMaxWidth = 3
    /\ wLines = <<<<"a">>, <<"w", "a">>>>

(***************************************************************************)
(* C17.  filter_quotes and the caller's list.                              *)
(***************************************************************************)
\* C17: filter_quotes does not modify the list passed by the caller: after
\* the call the list has the same elements in the same order as before, for
\* every min_score, category and max_count.
C17_CallerListUnchanged ==
    fpc = "returned" => fQuotes = fBefore

(***************************************************************************)
(* C18.  The quote's lines on the canvas.                                  *)
(***************************************************************************)
\* the subtitle's y of each template, in pixels
SubtitleY(template, g) ==
    CASE template = "minimal" -> g.height - g.padding - 60
      [] template = "elegant" -> g.height - g.padding - 80
      [] template = "modern" -> g.height - g.padding - 180

\* C18: every wrapped line of the quote is drawn inside the canvas and above
\* the subtitle: the y of the last line plus one line step (1.5 x the font
\* size for minimal and modern, 1.6 x for elegant) exceeds neither the
\* subtitle's y nor the canvas height.
C18_LinesInsideCanvas ==
    (dpc = "drawn" /\ dCard.raised = "" /\ dCard.line_ys # <<>>) =>
        LET last == dCard.line_ys[Len(dCard.line_ys)]
            step == dGen.font.size
                        * (IF dCard.template = "elegant" THEN 16 ELSE 15)
        IN  /\ last + step <= 10 * SubtitleY(dCard.template, dGen)
            /\ last + step <= 10 * dGen.height

====
